---------------------------- MODULE Spec2Model ----------------------------
(***************************************************************************)
(* Model of src/src/extension.ts: the CommitMessageGenerator class          *)
(* (generateCommitMessage, getFormatRules) and the createCommitMessage      *)
(* command handler registered in activate().                                *)
(*                                                                          *)
(* Text is modelled as a sequence of string segments (a "rope"): the empty  *)
(* string is <<>>, concatenation is \o.  A template literal becomes the     *)
(* concatenation of its fixed segments and its interpolated values.         *)
(* An optional value (undefined or a value) is None or Some(v).             *)
(***************************************************************************)
EXTENDS Naturals, Sequences, FiniteSets, TLC

VARIABLES
    config,           \* the 'claude-code-ai-commit-message-button' configuration section
    workspaceFolder,  \* vscode.workspace.workspaceFolders?.[0]?.uri.fsPath
    gitExtension,     \* vscode.extensions.getExtension('vscode.git')?.exports
    tree,             \* per directory: what the two git commands print there
    inputBox,         \* per repository: repo.inputBox.value
    cmd,              \* per invocation: the command handler's frame
    gen,              \* per invocation: generateCommitMessage's frame
    trace,            \* per invocation: the calls it made to its collaborators
    fmt               \* a bare call of getFormatRules

vars == <<config, workspaceFolder, gitExtension, tree, inputBox, cmd, gen, trace, fmt>>

-----------------------------------------------------------------------------
(* Bounds *)

MaxDiffLen == 2       \* segments in one git output
MaxBlocks == 2        \* content blocks in one API response
MaxTemplateLen == 2   \* segments in a customTemplate handed to getFormatRules
MaxRules == 2         \* entries in customRules

Invocations == {1, 2}

-----------------------------------------------------------------------------
(* Optional values and JavaScript truthiness *)

None == [has |-> FALSE]

Some(v) == [has |-> TRUE, v |-> v]

\* a || b on optional strings: undefined and '' are falsy
OrElse(o, d) == IF o.has /\ o.v # "" THEN o.v ELSE d

\* a || b on optional texts (ropes): undefined and '' are falsy
OrElseText(o, d) == IF o.has /\ o.v # <<>> THEN o.v ELSE d

\* a || b on optional numbers: undefined and 0 are falsy
OrElseNum(o, d) == IF o.has /\ o.v # 0 THEN o.v ELSE d

\* a || b on optional arrays: only undefined is falsy, [] is truthy
OrElseArray(o, d) == IF o.has THEN o.v ELSE d

-----------------------------------------------------------------------------
(* Text *)

IsSpace(s) == s \in {" ", "\n", "\t"}

RECURSIVE TrimStart(_)
TrimStart(t) ==
    IF t # <<>> /\ IsSpace(Head(t)) THEN TrimStart(Tail(t)) ELSE t

RECURSIVE TrimEnd(_)
TrimEnd(t) ==
    IF t # <<>> /\ IsSpace(t[Len(t)]) THEN TrimEnd(SubSeq(t, 1, Len(t) - 1)) ELSE t

\* String.prototype.trim
Trim(t) == TrimEnd(TrimStart(t))

\* Array.prototype.join over ropes
RECURSIVE Join(_, _)
Join(parts, sep) ==
    IF parts = <<>> THEN <<>>
    ELSE IF Len(parts) = 1 THEN parts[1]
    ELSE parts[1] \o sep \o Join(Tail(parts), sep)

\* String.prototype.startsWith
StartsWith(t, prefix) ==
    Len(prefix) <= Len(t) /\ SubSeq(t, 1, Len(prefix)) = prefix

\* all ropes of at most n segments over an alphabet
RECURSIVE TextsUpTo(_, _)
TextsUpTo(alphabet, n) ==
    IF n = 0 THEN {<<>>}
    ELSE LET shorter == TextsUpTo(alphabet, n - 1)
         IN  shorter \cup {Append(t, a) : t \in shorter, a \in alphabet}

Segments(t) == {t[k] : k \in 1..Len(t)}

-----------------------------------------------------------------------------
(* getFormatRules, lines 102-130 *)

ConventionalBlock ==
    << "Rules:",
       "\n- Use conventional commit format",
       "\n- Keep under 72 characters for the first line",
       "\n- Be specific and clear",
       "\n- Common types: feat, fix, docs, style, refactor, test, chore" >>

AngularBlock ==
    << "Rules:",
       "\n- Use Angular commit format: <type>(<scope>): <description>",
       "\n- Types: build, ci, docs, feat, fix, perf, refactor, style, test",
       "\n- Keep under 100 characters for the first line",
       "\n- Use imperative mood" >>

CustomBlock(customTemplate) ==
    << "Rules:", "\n- Follow this custom template: " >> \o customTemplate
        \o << "\n- Be specific and clear" >>

\* the block the 'custom' case returns for an empty template (lines 119-122)
CustomFallbackBlock ==
    << "Rules:",
       "\n- Use conventional commit format",
       "\n- Keep under 72 characters for the first line",
       "\n- Be specific and clear" >>

getFormatRulesDefaultAngular(commitFormat, customTemplate) ==
    CASE commitFormat = "conventional" -> ConventionalBlock
      [] commitFormat = "angular" -> AngularBlock
      [] commitFormat = "custom" ->
            IF customTemplate # <<>> THEN CustomBlock(customTemplate)
            ELSE CustomFallbackBlock
      [] OTHER -> AngularBlock

getFormatRules(commitFormat, customTemplate) ==
    CASE commitFormat = "conventional" -> ConventionalBlock
      [] commitFormat = "angular" -> AngularBlock
      [] commitFormat = "custom" ->
            IF customTemplate # <<>> THEN CustomBlock(customTemplate)
            ELSE CustomFallbackBlock
      [] OTHER -> ConventionalBlock

-----------------------------------------------------------------------------
(* Collaborators: child_process.exec, the completion API *)

RootA == <<"/a">>

RootB == <<"/b">>

\* process.cwd() of the extension host: where exec runs when cwd is undefined
HostCwd == <<"/host">>

Dirs == {RootA, RootB, HostCwd}

StagedCmd == "git diff --cached"

UnstagedCmd == "git diff"

\* the segment that marks a change made in directory d
ChangeIn(d) == IF d = RootA THEN "+a" ELSE IF d = RootB THEN "+b" ELSE "+h"

\* the outputs git can print in directory d
DiffTexts(d) == TextsUpTo({"\n", ChangeIn(d)}, MaxDiffLen)

EmptyTree == [staged |-> <<>>, unstaged |-> <<>>]

ExecDir(cwd) == IF cwd.has THEN cwd.v ELSE HostCwd

\* stdout of a git command run with option cwd
GitStdout(command, cwd) ==
    IF command = StagedCmd THEN tree[ExecDir(cwd)].staged
    ELSE tree[ExecDir(cwd)].unstaged

\* the error exec rejects with when the process fails
ExecError(command) == <<"Command failed: ", command>>

ApiErrors == { <<"401 authentication_error">>, <<"Connection error.">> }

TextBlock(t) == [type |-> "text", text |-> t]

ToolUseBlock == [type |-> "tool_use"]

\* what the model may answer to one request: a text that depends on the
\* request, an empty text, or a block that is not text
BlocksFor(request) ==
    { TextBlock(<<"feat: ">> \o request.messages[1].content),
      TextBlock(<<>>),
      ToolUseBlock }

RECURSIVE SeqsUpTo(_, _)
SeqsUpTo(S, n) ==
    IF n = 0 THEN {<<>>}
    ELSE LET shorter == SeqsUpTo(S, n - 1)
         IN  shorter \cup {Append(q, x) : q \in shorter, x \in S}

ResponsesFor(request) == SeqsUpTo(BlocksFor(request), MaxBlocks)

(* the calls an invocation makes, in order *)
ExecCall(command, cwd) == [ev |-> "exec", command |-> command, cwd |-> cwd]

ExecStdout(command, stdout) == [ev |-> "stdout", command |-> command, stdout |-> stdout]

Thrown(message) == [ev |-> "throw", message |-> message]

ApiRequest(request) == [ev |-> "create", request |-> request]

ApiResponse(content) == [ev |-> "response", content |-> content]

-----------------------------------------------------------------------------
(* generateCommitMessage, lines 29-100 *)

DefaultModel == "claude-4-sonnet"

DefaultMaxTokens == 200

\* line 39
ResolveCwdWorkspaceFirst(repositoryPath, folder) ==
    IF folder.has /\ folder.v # <<>> THEN folder
    ELSE IF repositoryPath.has THEN repositoryPath ELSE None

ResolveCwd(repositoryPath, folder) ==
    IF repositoryPath.has /\ repositoryPath.v # <<>> THEN repositoryPath
    ELSE IF folder.has THEN folder ELSE None

\* line 46: if (!diff.trim())
NeedsUnstagedAlways(diff) == TRUE

NeedsUnstaged(diff) == Trim(diff) = <<>>

\* line 52: if (!diff.trim())
NoChangesNever(diff) == FALSE

NoChanges(diff) == Trim(diff) = <<>>

NoChangesMessage == <<"No changes found (staged or unstaged)">>

\* line 56
FileTypeStagedOnly(isStaged) == "staged files"

FileTypeChangedOnly(isStaged) == "changed files"

FileType(isStaged) == IF isStaged THEN "staged files" ELSE "changed files"

\* line 60
CustomRulesText(customRules) ==
    IF Len(customRules) > 0
    THEN <<"\n\nAdditional custom rules:\n">>
           \o Join([k \in 1..Len(customRules) |-> <<"- ">> \o customRules[k]], <<"\n">>)
    ELSE <<>>

\* lines 68-75
UserContent(fileType, diff, formatRules, customRulesText) ==
    << "write me a commit message for the ", fileType, ", do not commit",
       "\n\nGit diff:\n" >> \o diff \o << "\n\n" >> \o formatRules \o customRulesText
       \o << "\n- Do not wrap the response in code blocks or backticks",
             "\n- Return plain text only" >>

SystemPreamble ==
    << [type |-> "text",
        text |-> "You are Claude Code, Anthropic's official CLI for Claude.",
        cache_control |-> [type |-> "ephemeral"]],
       [type |-> "text",
        text |-> "\nYou are an interactive CLI tool that helps users with software engineering tasks.",
        cache_control |-> [type |-> "ephemeral"]] >>

\* lines 63-93
Request(model, maxTokens, content) ==
    [ model |-> model,
      max_tokens |-> maxTokens,
      messages |-> << [role |-> "user", content |-> content] >>,
      system |-> SystemPreamble ]

FallbackMessage == <<"Unable to generate commit message">>

RECURSIVE FindText(_)
FindText(content) ==
    IF content = <<>> THEN None
    ELSE IF Head(content).type = "text" THEN Some(Head(content))
    ELSE FindText(Tail(content))

RECURSIVE FindLastText(_)
FindLastText(content) ==
    IF content = <<>> THEN None
    ELSE IF content[Len(content)].type = "text" THEN Some(content[Len(content)])
    ELSE FindLastText(SubSeq(content, 1, Len(content) - 1))

\* lines 95-96
ExtractTextLast(content) ==
    LET textContent == FindLastText(content)
    IN  IF textContent.has THEN textContent.v.text ELSE FallbackMessage

ExtractText(content) ==
    LET textContent == FindText(content)
    IN  IF textContent.has THEN textContent.v.text ELSE FallbackMessage

\* line 98
ErrorPrefix == <<"Failed to generate commit message: ">>

WrapErrorBare(message) == message

WrapError(message) == ErrorPrefix \o message

UnusedGen == [pc |-> "unused"]

ReadyGen == [pc |-> "ready"]

\* lines 30-42: read the configuration, resolve cwd, start 'git diff --cached'
generateCommitMessage(i, repositoryPath) ==
    LET cwd == ResolveCwd(repositoryPath, workspaceFolder)
    IN  /\ gen' = [gen EXCEPT ![i] =
                [ pc |-> "staged",
                  repositoryPath |-> repositoryPath,
                  model |-> OrElse(config.model, DefaultModel),
                  maxTokens |-> OrElseNum(config.maxTokens, DefaultMaxTokens),
                  customRules |-> OrElseArray(config.customRules, <<>>),
                  commitFormat |-> OrElse(config.commitFormat, "conventional"),
                  customTemplate |-> OrElseText(config.customTemplate, <<>>),
                  cwd |-> cwd,
                  diff |-> <<>>,
                  isStaged |-> TRUE ]]
        /\ trace' = [trace EXCEPT ![i] = Append(@, ExecCall(StagedCmd, cwd))]

\* lines 97-99: the catch block
Rejected(f, message) ==
    [f EXCEPT !.pc = "rejected"] @@ [error |-> WrapError(message)]

\* lines 52-93 once the diff is chosen: throw on no changes, else build the
\* prompt and send the request
AfterDiff(f, events) ==
    IF NoChanges(f.diff)
    THEN [ gen |-> Rejected(f, NoChangesMessage),
           trace |-> Append(events, Thrown(NoChangesMessage)) ]
    ELSE LET fileType == FileType(f.isStaged)
             formatRules == getFormatRules(f.commitFormat, f.customTemplate)
             customRulesText == CustomRulesText(f.customRules)
             content == UserContent(fileType, f.diff, formatRules, customRulesText)
             request == Request(f.model, f.maxTokens, content)
         IN  [ gen |-> [f EXCEPT !.pc = "api"]
                         @@ [fileType |-> fileType, formatRules |-> formatRules,
                             request |-> request],
               trace |-> Append(events, ApiRequest(request)) ]

\* a call of generateCommitMessage(repositoryPath) from outside the handler
DirectCall(i) ==
    /\ gen[i].pc = "ready"
    /\ \E repositoryPath \in {None, Some(RootA)} : generateCommitMessage(i, repositoryPath)
    /\ UNCHANGED <<config, workspaceFolder, gitExtension, tree, inputBox, cmd, fmt>>

\* line 42 resolves; lines 43-47 or 43-63 follow
StagedDiffDone(i) ==
    /\ gen[i].pc = "staged"
    /\ LET stdout == GitStdout(StagedCmd, gen[i].cwd)
           f == [gen[i] EXCEPT !.diff = stdout, !.isStaged = TRUE]
           events == Append(trace[i], ExecStdout(StagedCmd, stdout))
       IN  IF NeedsUnstaged(stdout)
           THEN /\ gen' = [gen EXCEPT ![i] = [f EXCEPT !.pc = "unstaged"]]
                /\ trace' = [trace EXCEPT ![i] =
                                Append(events, ExecCall(UnstagedCmd, f.cwd))]
           ELSE LET next == AfterDiff(f, events)
                IN  /\ gen' = [gen EXCEPT ![i] = next.gen]
                    /\ trace' = [trace EXCEPT ![i] = next.trace]
    /\ UNCHANGED <<config, workspaceFolder, gitExtension, tree, inputBox, cmd, fmt>>

\* line 42 rejects: the catch block rethrows
StagedDiffFailed(i) ==
    /\ gen[i].pc = "staged"
    /\ gen' = [gen EXCEPT ![i] = Rejected(@, ExecError(StagedCmd))]
    /\ trace' = [trace EXCEPT ![i] = Append(@, Thrown(ExecError(StagedCmd)))]
    /\ UNCHANGED <<config, workspaceFolder, gitExtension, tree, inputBox, cmd, fmt>>

\* line 47 resolves; lines 48-63 follow
UnstagedDiffDone(i) ==
    /\ gen[i].pc = "unstaged"
    /\ LET stdout == GitStdout(UnstagedCmd, gen[i].cwd)
           f == [gen[i] EXCEPT !.diff = stdout, !.isStaged = FALSE]
           next == AfterDiff(f, Append(trace[i], ExecStdout(UnstagedCmd, stdout)))
       IN  /\ gen' = [gen EXCEPT ![i] = next.gen]
           /\ trace' = [trace EXCEPT ![i] = next.trace]
    /\ UNCHANGED <<config, workspaceFolder, gitExtension, tree, inputBox, cmd, fmt>>

\* line 47 rejects
UnstagedDiffFailed(i) ==
    /\ gen[i].pc = "unstaged"
    /\ gen' = [gen EXCEPT ![i] = Rejected(@, ExecError(UnstagedCmd))]
    /\ trace' = [trace EXCEPT ![i] = Append(@, Thrown(ExecError(UnstagedCmd)))]
    /\ UNCHANGED <<config, workspaceFolder, gitExtension, tree, inputBox, cmd, fmt>>

\* line 63 resolves; lines 95-96 return
ApiDone(i) ==
    /\ gen[i].pc = "api"
    /\ \E content \in ResponsesFor(gen[i].request) :
          /\ gen' = [gen EXCEPT ![i] =
                        [@ EXCEPT !.pc = "returned"] @@ [result |-> ExtractText(content)]]
          /\ trace' = [trace EXCEPT ![i] = Append(@, ApiResponse(content))]
    /\ UNCHANGED <<config, workspaceFolder, gitExtension, tree, inputBox, cmd, fmt>>

\* line 63 rejects
ApiFailed(i) ==
    /\ gen[i].pc = "api"
    /\ \E message \in ApiErrors :
          /\ gen' = [gen EXCEPT ![i] = Rejected(@, message)]
          /\ trace' = [trace EXCEPT ![i] = Append(@, Thrown(message))]
    /\ UNCHANGED <<config, workspaceFolder, gitExtension, tree, inputBox, cmd, fmt>>

GenStep(i) ==
    \/ StagedDiffDone(i)
    \/ StagedDiffFailed(i)
    \/ UnstagedDiffDone(i)
    \/ UnstagedDiffFailed(i)
    \/ ApiDone(i)
    \/ ApiFailed(i)

-----------------------------------------------------------------------------
(* Specification of generateCommitMessage called on its own *)

DefaultSettings ==
    [ model |-> None, maxTokens |-> None, customRules |-> None,
      commitFormat |-> None, customTemplate |-> None ]

Formats == {"", "conventional", "angular", "custom", "gitmoji"}

Templates == TextsUpTo({"<type>", ": <subject>"}, MaxTemplateLen)

RuleLists == SeqsUpTo({<<"use present tense">>, <<"mention ticket id">>}, MaxRules)

Opt(S) == {None} \cup {Some(x) : x \in S}

\* the settings a user may have written: one group of options changed at a time
UserSettings ==
    {[DefaultSettings EXCEPT !.commitFormat = f, !.customTemplate = t] :
        f \in Opt(Formats), t \in Opt(Templates)}
    \cup {[DefaultSettings EXCEPT !.customRules = r] : r \in Opt(RuleLists)}
    \cup {[DefaultSettings EXCEPT !.model = m, !.maxTokens = n] :
            m \in Opt({"", "claude-x"}), n \in Opt({0, 500})}

Trees(d) == [staged : DiffTexts(d), unstaged : DiffTexts(d)]

SampleTrees(d) ==
    { [staged |-> <<ChangeIn(d)>>, unstaged |-> <<>>],
      [staged |-> <<"\n">>, unstaged |-> <<ChangeIn(d), "\n">>] }

IdleCmd == [pc |-> "idle", uri |-> None, targetRepo |-> None]

IdleFmt == [pc |-> "idle"]

InitGen ==
    /\ \E s \in UserSettings, t \in Trees(RootA) :
          /\ s = DefaultSettings \/ t \in SampleTrees(RootA)
          /\ config = s
          /\ tree = [d \in Dirs |-> IF d = RootA THEN t ELSE EmptyTree]
    /\ workspaceFolder \in {None, Some(RootA)}
    /\ gitExtension = [available |-> FALSE, repositories |-> <<>>]
    /\ inputBox = [r \in {RootA, RootB} |-> <<>>]
    /\ cmd = [i \in Invocations |-> IdleCmd]
    /\ gen = [i \in Invocations |-> IF i = 1 THEN ReadyGen ELSE UnusedGen]
    /\ trace = [i \in Invocations |-> <<>>]
    /\ fmt = IdleFmt

NextGen == \E i \in Invocations : DirectCall(i) \/ GenStep(i)

SpecGen == InitGen /\ [][NextGen]_vars

-----------------------------------------------------------------------------
(* Specification of getFormatRules called on its own *)

FormatNames ==
    {"", "conventional", "angular", "custom", "gitmoji", "Conventional", "CUSTOM", "semantic"}

NamedFormats == {"conventional", "angular", "custom"}

InitFormat ==
    /\ fmt \in [pc : {"call"}, commitFormat : FormatNames, customTemplate : Templates]
    /\ config = DefaultSettings
    /\ workspaceFolder = None
    /\ gitExtension = [available |-> FALSE, repositories |-> <<>>]
    /\ tree = [d \in Dirs |-> EmptyTree]
    /\ inputBox = [r \in {RootA, RootB} |-> <<>>]
    /\ cmd = [i \in Invocations |-> IdleCmd]
    /\ gen = [i \in Invocations |-> UnusedGen]
    /\ trace = [i \in Invocations |-> <<>>]

\* one call of getFormatRules(commitFormat, customTemplate)
FormatCall ==
    /\ fmt.pc = "call"
    /\ fmt' = [ pc |-> "done",
                commitFormat |-> fmt.commitFormat,
                customTemplate |-> fmt.customTemplate,
                out |-> getFormatRules(fmt.commitFormat, fmt.customTemplate) ]
    /\ UNCHANGED <<config, workspaceFolder, gitExtension, tree, inputBox, cmd, gen, trace>>

NextFormat == FormatCall

SpecFormat == InitFormat /\ [][NextFormat]_vars

-----------------------------------------------------------------------------
(* The createCommitMessage command handler, lines 141-218 *)

ShowError(text) == [ev |-> "showErrorMessage", text |-> text]

ShowInformation(text) == [ev |-> "showInformationMessage", text |-> text]

ShowQuickPick(items) == [ev |-> "showQuickPick", items |-> items]

SetInputBox(repo, value) == [ev |-> "setInputBox", repo |-> repo, value |-> value]

\* line 158: (uri as any).E?.fsPath || uri.path
UriPath(uri) == OrElseText(uri.E, uri.path)

\* lines 157-161: Array.prototype.find over git.repositories
RECURSIVE FindRepository(_, _)
FindRepository(repositories, uri) ==
    IF repositories = <<>> THEN None
    ELSE IF UriPath(uri) # <<>> /\ StartsWith(UriPath(uri), Head(repositories))
         THEN Some(Head(repositories))
         ELSE FindRepository(Tail(repositories), uri)

\* the uri argument the host may pass to the command
Uris ==
    { None,
      Some([E |-> None, path |-> RootA \o <<"/x.ts">>]),
      Some([E |-> Some(RootB \o <<"/y.ts">>), path |-> RootA \o <<"/y.ts">>]),
      Some([E |-> None, path |-> <<"/elsewhere">>]) }

\* line 209: if (commitMessage)
ShouldSetAlways(commitMessage) == TRUE

ShouldSet(commitMessage) == commitMessage # <<>>

\* line 211: the input box written
WrittenBox(targetRepo) == targetRepo

\* lines 142-198: from the command's start to its first await or its return
createCommitMessage(i) ==
    /\ cmd[i].pc = "idle"
    /\ \E uri \in Uris :
        IF ~gitExtension.available
        THEN /\ cmd' = [cmd EXCEPT ![i] = [pc |-> "done", uri |-> uri, targetRepo |-> None]]
             /\ trace' = [trace EXCEPT ![i] =
                            Append(@, ShowError(<<"Git extension not available">>))]
        ELSE LET repositories == gitExtension.repositories
                 found == IF uri.has THEN FindRepository(repositories, uri.v) ELSE None
             IN  IF found.has
                 THEN /\ cmd' = [cmd EXCEPT ![i] =
                                    [pc |-> "progress", uri |-> uri, targetRepo |-> found]]
                      /\ UNCHANGED trace
                 ELSE IF Len(repositories) > 1
                 THEN /\ cmd' = [cmd EXCEPT ![i] =
                                    [pc |-> "pick", uri |-> uri, targetRepo |-> None]]
                      /\ trace' = [trace EXCEPT ![i] = Append(@, ShowQuickPick(repositories))]
                 ELSE IF Len(repositories) = 1
                 THEN /\ cmd' = [cmd EXCEPT ![i] =
                                    [pc |-> "progress", uri |-> uri,
                                     targetRepo |-> Some(repositories[1])]]
                      /\ UNCHANGED trace
                 ELSE /\ cmd' = [cmd EXCEPT ![i] =
                                    [pc |-> "done", uri |-> uri, targetRepo |-> None]]
                      /\ trace' = [trace EXCEPT ![i] =
                                     Append(@, ShowError(<<"No Git repository found">>))]
    /\ UNCHANGED <<config, workspaceFolder, gitExtension, tree, inputBox, gen, fmt>>

\* lines 184-191: the user selects a repository
PickRepository(i) ==
    /\ cmd[i].pc = "pick"
    /\ \E k \in 1..Len(gitExtension.repositories) :
          cmd' = [cmd EXCEPT ![i] =
                    [@ EXCEPT !.pc = "progress",
                              !.targetRepo = Some(gitExtension.repositories[k])]]
    /\ UNCHANGED <<config, workspaceFolder, gitExtension, tree, inputBox, gen, trace, fmt>>

\* lines 188-190: the user dismisses the picker
DismissPicker(i) ==
    /\ cmd[i].pc = "pick"
    /\ cmd' = [cmd EXCEPT ![i] = [@ EXCEPT !.pc = "done"]]
    /\ UNCHANGED <<config, workspaceFolder, gitExtension, tree, inputBox, gen, trace, fmt>>

\* lines 201-207: the progress task calls generateCommitMessage
RunTask(i) ==
    /\ cmd[i].pc = "progress"
    /\ gen[i].pc = "unused"
    /\ generateCommitMessage(i, cmd[i].targetRepo)
    /\ cmd' = [cmd EXCEPT ![i] = [@ EXCEPT !.pc = "awaiting"]]
    /\ UNCHANGED <<config, workspaceFolder, gitExtension, tree, inputBox, fmt>>

\* lines 209-213: the task resolved with commitMessage
TaskResolved(i) ==
    /\ cmd[i].pc = "awaiting"
    /\ gen[i].pc = "returned"
    /\ LET commitMessage == gen[i].result
           targetRepo == cmd[i].targetRepo.v
       IN  IF ShouldSet(commitMessage)
           THEN /\ inputBox' = [inputBox EXCEPT ![WrittenBox(targetRepo)] = commitMessage]
                /\ trace' = [trace EXCEPT ![i] =
                     @ \o << SetInputBox(WrittenBox(targetRepo), commitMessage),
                             ShowInformation(<<"Commit message set for ">> \o targetRepo
                                                \o <<"!">>) >>]
           ELSE UNCHANGED <<inputBox, trace>>
    /\ cmd' = [cmd EXCEPT ![i] = [@ EXCEPT !.pc = "done"]]
    /\ UNCHANGED <<config, workspaceFolder, gitExtension, tree, gen, fmt>>

\* lines 215-217: the task rejected
TaskRejected(i) ==
    /\ cmd[i].pc = "awaiting"
    /\ gen[i].pc = "rejected"
    /\ trace' = [trace EXCEPT ![i] = Append(@, ShowError(<<"Error: ">> \o gen[i].error))]
    /\ cmd' = [cmd EXCEPT ![i] = [@ EXCEPT !.pc = "done"]]
    /\ UNCHANGED <<config, workspaceFolder, gitExtension, tree, inputBox, gen, fmt>>

\* what the input boxes hold before the command runs
Draft(r) == <<"wip">>

\* the working trees of the command's runs
StagedTree(d) == [staged |-> <<ChangeIn(d), "\n">>, unstaged |-> <<>>]

UnstagedTree(d) == [staged |-> <<>>, unstaged |-> <<ChangeIn(d), "\n">>]

\* (tree of RootA, tree of RootB): each kind of tree occurs in each repository
CommandTrees ==
    { <<StagedTree(RootA), UnstagedTree(RootB)>>,
      <<UnstagedTree(RootA), EmptyTree>>,
      <<EmptyTree, StagedTree(RootB)>> }

Init ==
    /\ config = DefaultSettings
    /\ workspaceFolder = Some(RootA)
    /\ gitExtension \in
          {[available |-> FALSE, repositories |-> <<>>]}
          \cup [available : {TRUE}, repositories : {<<>>, <<RootA>>, <<RootA, RootB>>}]
    /\ \E t \in CommandTrees :
          tree = [d \in Dirs |-> IF d = RootA THEN t[1] ELSE IF d = RootB THEN t[2]
                                  ELSE EmptyTree]
    /\ inputBox = [r \in {RootA, RootB} |-> Draft(r)]
    /\ cmd = [i \in Invocations |-> IdleCmd]
    /\ gen = [i \in Invocations |-> UnusedGen]
    /\ trace = [i \in Invocations |-> <<>>]
    /\ fmt = IdleFmt

Next ==
    \E i \in Invocations :
        \/ createCommitMessage(i)
        \/ PickRepository(i)
        \/ DismissPicker(i)
        \/ RunTask(i)
        \/ GenStep(i)
        \/ TaskResolved(i)
        \/ TaskRejected(i)

Spec == Init /\ [][Next]_vars

-----------------------------------------------------------------------------
(* Reading a trace *)

\* the string a rope stands for
RECURSIVE Flatten(_)
Flatten(t) == IF t = <<>> THEN "" ELSE Head(t) \o Flatten(Tail(t))

\* positions of the events of one kind in invocation i's trace
At(i, kind) == {k \in 1..Len(trace[i]) : trace[i][k].ev = kind}

\* positions where a git command was started / printed its output
ExecsOf(i, command) == {k \in At(i, "exec") : trace[i][k].command = command}

StdoutsOf(i, command) == {k \in At(i, "stdout") : trace[i][k].command = command}

\* generateCommitMessage was entered by invocation i
Entered(i) == gen[i].pc \notin {"unused", "ready"}

Blank(t) == \A k \in 1..Len(t) : IsSpace(t[k])

-----------------------------------------------------------------------------
(* Claims about generateCommitMessage, checked under SpecGen *)

\* C1: whenever 'git diff --cached' printed output that is non-empty after
\* trimming, the diff is labelled 'staged files' and 'git diff' is never
\* started in that invocation.
C1_StagedDiffPreferred ==
    \A i \in Invocations : \A k \in StdoutsOf(i, StagedCmd) :
        ~Blank(trace[i][k].stdout) =>
            /\ ExecsOf(i, UnstagedCmd) = {}
            /\ gen[i].isStaged
            /\ gen[i].fileType = "staged files"
            /\ \A r \in At(i, "create") :
                  trace[i][r].request.messages[1].content[2] = "staged files"

C1_Witness ==
    /\ gen[1].pc = "returned"
    /\ \E k \in StdoutsOf(1, StagedCmd) :
          /\ trace[1][k].stdout = <<"\n", "+a">>
          /\ tree[RootA].unstaged = <<"+a", "+a">>

\* C2: when both git commands printed only whitespace (or nothing), the call
\* rejects with 'Failed to generate commit message: No changes found (staged
\* or unstaged)' and no completion request is issued.
C2_NoChangesRejects ==
    \A i \in Invocations :
        \A k \in StdoutsOf(i, StagedCmd), u \in StdoutsOf(i, UnstagedCmd) :
            (Blank(trace[i][k].stdout) /\ Blank(trace[i][u].stdout)) =>
                /\ gen[i].pc = "rejected"
                /\ Flatten(gen[i].error) =
                     "Failed to generate commit message: No changes found (staged or unstaged)"
                /\ At(i, "create") = {}

C2_Witness ==
    /\ gen[1].pc = "rejected"
    /\ \E k \in StdoutsOf(1, StagedCmd), u \in StdoutsOf(1, UnstagedCmd) :
          /\ trace[1][k].stdout = <<"\n">>
          /\ trace[1][u].stdout = <<"\n", "\n">>

\* C3: a failure raised in a git process, the no-changes check or the API
\* call is re-raised once, as 'Failed to generate commit message: ' followed
\* by the original message, and a call in which a step failed returns no string.
C3_FailuresWrappedOnce ==
    \A i \in Invocations :
        /\ \A k \in At(i, "throw") :
              /\ gen[i].pc = "rejected"
              /\ At(i, "throw") = {k}
              /\ Flatten(gen[i].error) =
                   "Failed to generate commit message: " \o Flatten(trace[i][k].message)
        /\ gen[i].pc = "rejected" => At(i, "throw") # {}
        /\ gen[i].pc = "returned" => At(i, "throw") = {}

C3_Witness ==
    /\ gen[1].pc = "rejected"
    /\ \E k \in At(1, "throw") : trace[1][k].message = <<"Connection error.">>
    /\ At(1, "create") # {}

\* C4: after a successful API call the result is the text of the first block
\* of type 'text', in response order; with no such block the call returns
\* 'Unable to generate commit message' and does not throw.
C4_FirstTextBlockOrFallback ==
    \A i \in Invocations : \A k \in At(i, "response") :
        LET content == trace[i][k].content
            texts == {b \in 1..Len(content) : content[b].type = "text"}
        IN  /\ gen[i].pc = "returned"
            /\ \A b \in texts :
                  (\A a \in texts : b <= a) => gen[i].result = content[b].text
            /\ texts = {} =>
                  Flatten(gen[i].result) = "Unable to generate commit message"

C4_Witness ==
    /\ gen[1].pc = "returned"
    /\ \E k \in At(1, "response") :
          LET content == trace[1][k].content
          IN  /\ Len(content) = 2
              /\ content[1].type = "text" /\ content[2].type = "text"
              /\ content[1].text # <<>> /\ content[2].text = <<>>

\* C7: when 'git diff --cached' printed only whitespace and 'git diff' printed
\* output that is non-empty after trimming, the request is sent, its user
\* message names 'changed files' and embeds the output of 'git diff'.
C7_UnstagedFallback ==
    \A i \in Invocations :
        \A k \in StdoutsOf(i, StagedCmd), u \in StdoutsOf(i, UnstagedCmd) :
            (Blank(trace[i][k].stdout) /\ ~Blank(trace[i][u].stdout)) =>
                /\ ~gen[i].isStaged
                /\ \E r \in At(i, "create") :
                      LET content == trace[i][r].request.messages[1].content
                          unstaged == trace[i][u].stdout
                      IN  /\ Len(content) > 4 + Len(unstaged)
                          /\ Flatten(SubSeq(content, 1, 4 + Len(unstaged))) =
                               "write me a commit message for the changed files, do not commit"
                               \o "\n\nGit diff:\n" \o Flatten(unstaged)
                          /\ content[5 + Len(unstaged)] = "\n\n"

C7_Witness ==
    /\ gen[1].pc = "api"
    /\ \E k \in StdoutsOf(1, StagedCmd), u \in StdoutsOf(1, UnstagedCmd) :
          /\ trace[1][k].stdout = <<"\n">>
          /\ trace[1][u].stdout = <<"+a", "\n">>

\* C8: a call starts 'git diff --cached' once, then 'git diff' at most once
\* and only after the staged output was found empty; it issues at most one
\* API request, after the diff step; after a failure it starts nothing more.
C8_OneShotSteps ==
    \A i \in Invocations : Entered(i) =>
        /\ Cardinality(At(i, "exec")) \in {1, 2}
        /\ ExecsOf(i, StagedCmd) = {1}
        /\ Cardinality(ExecsOf(i, UnstagedCmd)) <= 1
        /\ \A k \in ExecsOf(i, UnstagedCmd) :
              /\ k - 1 \in StdoutsOf(i, StagedCmd)
              /\ Blank(trace[i][k - 1].stdout)
        /\ Cardinality(At(i, "create")) <= 1
        /\ \A r \in At(i, "create") :
              /\ \A k \in At(i, "exec") \cup At(i, "stdout") : k < r
              /\ Cardinality(At(i, "stdout")) = Cardinality(At(i, "exec"))
        /\ \A t \in At(i, "throw") :
              \A k \in At(i, "exec") \cup At(i, "create") : k < t

C8_Witness ==
    /\ gen[1].pc = "rejected"
    /\ Cardinality(At(1, "exec")) = 2
    /\ At(1, "create") # {}

-----------------------------------------------------------------------------
(* Claims about getFormatRules, checked under SpecFormat *)

\* C5: getFormatRules('custom', '') returns the same block as
\* getFormatRules('conventional', '').
C5_CustomEmptyIsConventional ==
    (fmt.pc = "done" /\ fmt.commitFormat = "custom" /\ fmt.customTemplate = <<>>) =>
        Flatten(fmt.out) = Flatten(getFormatRules("conventional", <<>>))

\* C6: for a format other than 'conventional', 'angular' and 'custom', and any
\* template t, getFormatRules returns what getFormatRules('conventional', t)
\* returns.
C6_UnknownFormatIsConventional ==
    (fmt.pc = "done" /\ fmt.commitFormat \notin NamedFormats) =>
        Flatten(fmt.out) = Flatten(getFormatRules("conventional", fmt.customTemplate))

C6_Witness ==
    /\ fmt.pc = "done"
    /\ fmt.commitFormat = "gitmoji"
    /\ fmt.customTemplate = <<"<type>", ": <subject>">>

-----------------------------------------------------------------------------
(* Claims about the command, checked under Spec *)

Outcome(i, kind) == At(i, kind) # {}

\* C9: an invocation writes only the input box of its target repository; what
\* it writes is the result of its own request, whose prompt embeds the diff
\* its git commands printed with cwd equal to that repository's root and no
\* other repository's; a box holds its previous value or what an invocation
\* that targets it wrote.
C9_InvocationsIndependent ==
    /\ \A i \in Invocations : \A k \in At(i, "setInputBox") :
          LET target == cmd[i].targetRepo
              written == trace[i][k]
          IN  /\ target.has
              /\ written.repo = target.v
              /\ written.value = gen[i].result
              /\ \A e \in At(i, "exec") : trace[i][e].cwd = target
              /\ \A r \in At(i, "create") :
                    LET content == trace[i][r].request.messages[1].content
                    IN  /\ ChangeIn(target.v) \in Segments(content)
                        /\ \A d \in Dirs \ {target.v} :
                              ChangeIn(d) \notin Segments(content)
              /\ At(i, "create") # {}
    /\ \A r \in DOMAIN inputBox :
          \/ inputBox[r] = Draft(r)
          \/ \E i \in Invocations : \E k \in At(i, "setInputBox") :
                /\ trace[i][k].repo = r
                /\ trace[i][k].value = inputBox[r]
                /\ cmd[i].targetRepo = Some(r)

C9_Witness ==
    /\ cmd[1].targetRepo = Some(RootB)
    /\ cmd[2].targetRepo = Some(RootA)
    /\ Outcome(1, "setInputBox")
    /\ cmd[2].pc = "done" /\ Outcome(2, "setInputBox")
    /\ inputBox[RootA] # Draft(RootA)
    /\ inputBox[RootB] # Draft(RootB)

\* C10 as stated: a finished invocation either set its target's input box or
\* showed an error message, one of the two.
C10_ExactlyOneOutcome ==
    \A i \in Invocations : cmd[i].pc = "done" =>
        Outcome(i, "setInputBox") # Outcome(i, "showErrorMessage")

\* C10 as amended: a finished invocation ends in one of three outcomes: its
\* target's input box is set to the generated message; an error message is
\* shown; or, when the picker was dismissed or the generated message is
\* empty, neither.  Unless it set its target's box it changed no box.
C10_OutcomeOrSilent ==
    /\ \A i \in Invocations : cmd[i].pc = "done" =>
          LET set == Outcome(i, "setInputBox")
              err == Outcome(i, "showErrorMessage")
              dismissed == Outcome(i, "showQuickPick") /\ ~cmd[i].targetRepo.has
              empty == gen[i].pc = "returned" /\ gen[i].result = <<>>
          IN  /\ ~(set /\ err)
              /\ (~set /\ ~err) <=> (dismissed \/ empty)
              /\ err <=> \/ ~gitExtension.available
                         \/ gitExtension.repositories = <<>>
                         \/ gen[i].pc = "rejected"
              /\ set => /\ Cardinality(At(i, "setInputBox")) = 1
                        /\ \A k \in At(i, "setInputBox") :
                              /\ trace[i][k].repo = cmd[i].targetRepo.v
                              /\ trace[i][k].value = gen[i].result
    /\ \A r \in DOMAIN inputBox :
          inputBox[r] # Draft(r) =>
              \E i \in Invocations : \E k \in At(i, "setInputBox") :
                  trace[i][k].repo = r /\ trace[i][k].value = inputBox[r]

C10_Witness ==
    /\ cmd[1].pc = "done" /\ Outcome(1, "showQuickPick") /\ ~cmd[1].targetRepo.has
    /\ cmd[2].pc = "done" /\ Outcome(2, "setInputBox")
    /\ inputBox[RootA] # Draft(RootA)
    /\ inputBox[RootB] = Draft(RootB)

=============================================================================
